---------------------------- MODULE Spec2Model ----------------------------
(***************************************************************************)
(* A model of VsoRollupItems: the cost roll-up of rollupcosts.js and its   *)
(* earlier revision app.js.  One run of the program is a state machine:    *)
(* command line -> hierarchy query -> field fetch -> recursive roll-up ->  *)
(* update plan -> capped, batched write-back -> report.                    *)
(*                                                                         *)
(* Numbers are exact decimals scaled to thousandths (1 = 0.001), so that   *)
(* Math.round(x * 100) / 100 is Round2 below.  A JavaScript value that may *)
(* be undefined is a sequence: <<>> is undefined, <<n>> is the number n.   *)
(***************************************************************************)
EXTENDS Integers, Sequences, FiniteSets, TLC

VARIABLES
    revision,            \* which file runs: "rollupcosts" or "app"
    cmdline,             \* the options as the user typed them
    args,                \* the options object processCommandline returns
    pc,                  \* position of the run in the promise chain
    queryResults,        \* workItemRelations returned by the hierarchy query
    vso,                 \* the external system: item id -> stored field values
    workItemsHierarchy,  \* parent id -> sequence of direct child ids
    workItemsWithFields, \* item id -> [fields, state]
    keyIdx,              \* position of rollupCosts' _.each over the hierarchy keys
    stack,               \* active calls of rollupCostsForItem for parent items
    batches,             \* the batch requests updateCosts has submitted
    delivered,           \* what reaches the .then / .catch after the write step
    console,             \* what the run has logged
    fetch,               \* getWorkItemFields: the query's outcome, the page requests, the collated results
    rollupCalls,         \* how many times rollupCosts / rollupCostsForItem was called from outside
    history              \* one record per earlier run of the program over this external system

vars == <<revision, cmdline, args, pc, queryResults, vso, workItemsHierarchy,
          workItemsWithFields, keyIdx, stack, batches, delivered, console,
          fetch, rollupCalls, history>>

-----------------------------------------------------------------------------
(* Bounds of the model and configured values *)

\* config.get('batchSize')
BatchSize == 2

\* config.get('maxUpdates')
MaxUpdates == 2

\* largest --forcecap the model lets the user type
MaxForcecap == 3

\* largest stored whole-cent cost of an item, in cents
MaxCents == 1

\* how many nested calls of rollupCostsForItem the call stack of the runtime holds
MaxDepth == 4

\* MaxIdsInSingleCall: how many ids one request of getWorkItemFields asks for
MaxIdsInSingleCall == 2

\* how many times the program is run over the same external system
MaxRuns == 4

\* how many times the traversal is entered from outside in the re-entry runs
MaxRollupCalls == 2

\* fieldsToRollup, in configured order
fieldsToRollup == <<"RemainingWork", "OriginalEstimate">>

FieldNames == {fieldsToRollup[k] : k \in 1..Len(fieldsToRollup)}

Items == 1..4

-----------------------------------------------------------------------------
(* JavaScript values *)

Undefined == <<>>

Num(n) == <<n>>

\* x || 0 for x a number or undefined
OrZero(x) == IF x = Undefined THEN 0 ELSE x[1]

\* Math.round(x * 100) / 100 on thousandths: Math.round is floor(y + 0.5)
Round2(v) == ((v + 5) \div 10) * 10

\* the ids of an object with integer keys, in the order _.each / _.map visit them
RECURSIVE SortedIds(_)
SortedIds(S) ==
    IF S = {} THEN <<>>
    ELSE LET m == CHOOSE x \in S : \A y \in S : x <= y
         IN  <<m>> \o SortedIds(S \ {m})

\* the last n elements instead of the first
TakeLast(s, n) ==
    IF n <= 0 THEN <<>> ELSE SubSeq(s, IF n < Len(s) THEN Len(s) - n + 1 ELSE 1, Len(s))

\* _.take(array, n)
Take(s, n) == IF n <= 0 THEN <<>> ELSE SubSeq(s, 1, IF n < Len(s) THEN n ELSE Len(s))

\* _.filter(array, predicate) for a predicate given as the set of accepted elements
RECURSIVE FilterSeq(_, _)
FilterSeq(s, S) ==
    IF s = <<>> THEN <<>>
    ELSE (IF Head(s) \in S THEN <<Head(s)>> ELSE <<>>) \o FilterSeq(Tail(s), S)

\* chunks of exactly size elements: a shorter remainder is dropped
RECURSIVE ChunkFullOnly(_, _)
ChunkFullOnly(s, size) ==
    IF Len(s) < size \/ s = <<>> THEN <<>>
    ELSE <<SubSeq(s, 1, size)>> \o ChunkFullOnly(SubSeq(s, size + 1, Len(s)), size)

\* _.chunk(array, size)
RECURSIVE Chunk(_, _)
Chunk(s, size) ==
    IF s = <<>> THEN <<>>
    ELSE IF Len(s) <= size THEN <<s>>
    ELSE <<SubSeq(s, 1, size)>> \o Chunk(SubSeq(s, size + 1, Len(s)), size)

-----------------------------------------------------------------------------
(* Command line *)

\* the options as typed, safe mode only on --safe
processCommandlineAsTyped(c) == [c EXCEPT !.defined = TRUE]

\* processCommandline: rollupcosts.js assumes safe mode unless --apply was given;
\* app.js returns nothing for --help and otherwise the options as typed
processCommandline(c) ==
    IF revision = "rollupcosts"
    THEN IF c.help THEN [c EXCEPT !.defined = TRUE]
         ELSE [c EXCEPT !.defined = TRUE, !.safe = IF c.apply THEN c.safe ELSE TRUE]
    ELSE IF c.help THEN [c EXCEPT !.defined = FALSE]
         ELSE [c EXCEPT !.defined = TRUE]

\* the top of the script: parse the options, show the help or start the run
\* (--config and --iterationpath, which rollupcosts.js requires, are given)
ProcessCommandline ==
    /\ pc = "start"
    /\ args' = processCommandline(cmdline)
    /\ IF revision = "rollupcosts" /\ cmdline.help
       THEN /\ pc' = "exit"
            /\ console' = Append(console, [msg |-> "help", n |-> <<>>])
       ELSE /\ pc' = "query"
            /\ console' = IF cmdline.help
                          THEN Append(console, [msg |-> "help", n |-> <<>>])
                          ELSE console
    /\ UNCHANGED <<revision, cmdline, fetch, rollupCalls, history, queryResults,
                   vso, workItemsHierarchy, workItemsWithFields, keyIdx, stack,
                   batches, delivered>>

-----------------------------------------------------------------------------
(* Hierarchy index and field snapshots *)

HierarchyForward == "System.LinkTypes.Hierarchy-Forward"

\* a loop that files every relation under its source, whatever its kind
RECURSIVE BuildHierarchyAnyKind(_, _)
BuildHierarchyAnyKind(rels, h) ==
    IF rels = <<>> THEN h
    ELSE LET elm == Head(rels)
             old == IF elm.source \in DOMAIN h THEN h[elm.source] ELSE <<>>
             h2  == [id \in (DOMAIN h) \cup {elm.source} |->
                       IF id = elm.source THEN Append(old, elm.target) ELSE h[id]]
         IN  BuildHierarchyAnyKind(Tail(rels), h2)

\* the loop over queryResults.workItemRelations that fills workItemsHierarchy
RECURSIVE BuildHierarchy(_, _)
BuildHierarchy(rels, h) ==
    IF rels = <<>> THEN h
    ELSE LET elm == Head(rels)
             old == IF elm.source \in DOMAIN h THEN h[elm.source] ELSE <<>>
             h2  == IF elm.rel = HierarchyForward
                    THEN [id \in (DOMAIN h) \cup {elm.source} |->
                             IF id = elm.source THEN Append(old, elm.target) ELSE h[id]]
                    ELSE h
         IN  BuildHierarchy(Tail(rels), h2)

\* the ids handed to getWorkItemFields: the target of every relation
TargetIds(rels) == {rels[k].target : k \in 1..Len(rels)}

\* the entry getWorkItemFields stores for one fetched work item
NewEntry(fields) ==
    [fields |-> fields,
     state  |-> [rollupInfo       |-> [f \in FieldNames |-> Undefined],
                 isProcessed      |-> FALSE,
                 isUpdateRequired |-> FALSE]]

\* the query answers: the hierarchy is built and the field fetch is started
QueryResolve ==
    /\ pc = "query"
    /\ workItemsHierarchy' = BuildHierarchy(queryResults, <<>>)
    /\ console' = IF revision = "rollupcosts"
                  THEN Append(console, [msg |-> "Processing items", n |-> <<Len(queryResults)>>])
                  ELSE console
    /\ pc' = "fetch"
    /\ UNCHANGED <<revision, cmdline, fetch, rollupCalls, history, args,
                   queryResults, vso, workItemsWithFields, keyIdx, stack,
                   batches, delivered>>

\* getWorkItemFields resolves with the table of fetched items, and the .then calls
\* rollupCosts
FetchResolve ==
    /\ pc = "fetch"
    /\ workItemsWithFields' =
          [id \in TargetIds(queryResults) \cap DOMAIN vso |-> NewEntry(vso[id])]
    /\ keyIdx' = 1
    /\ rollupCalls' = 1
    /\ pc' = "rollup"
    /\ UNCHANGED <<revision, cmdline, fetch, history, args, queryResults, vso,
                   workItemsHierarchy, stack, batches, delivered, console>>

\* the ids handed to getWorkItemFields, as the list _.map produces
RECURSIVE TargetIdList(_)
TargetIdList(rels) ==
    IF rels = <<>> THEN <<>> ELSE <<Head(rels).target>> \o TargetIdList(Tail(rels))

\* one GET for a page of ids, as submitted by the loop over chunkedIds
PageRequest(idsCapped) == [ids |-> idsCapped, status |-> "pending"]

\* the hierarchy query is rejected: vstsApi logs and rethrows, every .then of the
\* chain is skipped and the rejection reaches the .catch
QueryReject ==
    /\ pc = "query"
    /\ fetch' = [fetch EXCEPT !.query = "rejected"]
    /\ console' = Append(console, [msg |-> "vstsApi error", n |-> <<>>])
    /\ delivered' = [kind |-> "error", value |-> Undefined]
    /\ pc' = "report"
    /\ UNCHANGED <<revision, cmdline, rollupCalls, history, args, queryResults, vso,
                   workItemsHierarchy, workItemsWithFields, keyIdx, stack,
                   batches>>

\* the query answers: the hierarchy is built and getWorkItemFields submits one
\* request per page of MaxIdsInSingleCall ids
QueryResolvePaged ==
    /\ pc = "query"
    /\ workItemsHierarchy' = BuildHierarchy(queryResults, <<>>)
    /\ console' = IF revision = "rollupcosts"
                  THEN Append(console, [msg |-> "Processing items", n |-> <<Len(queryResults)>>])
                  ELSE console
    /\ fetch' = LET chunkedIds == Chunk(TargetIdList(queryResults), MaxIdsInSingleCall)
                IN  [query   |-> "resolved",
                     pages   |-> [k \in 1..Len(chunkedIds) |-> PageRequest(chunkedIds[k])],
                     results |-> <<>>]
    /\ pc' = "fetch"
    /\ UNCHANGED <<revision, cmdline, rollupCalls, history, args, queryResults, vso,
                   workItemsWithFields, keyIdx, stack, batches, delivered>>

\* the items of one response merged into the collated results
MergePage(results, ids) ==
    [id \in DOMAIN results \cup ({ids[k] : k \in 1..Len(ids)} \cap DOMAIN vso) |->
        IF id \in {ids[k] : k \in 1..Len(ids)} THEN NewEntry(vso[id]) ELSE results[id]]

\* the response of page i arrives: its items are stored and the page's deferred
\* is resolved
PageResolve(i) ==
    /\ i \in 1..Len(fetch.pages)
    /\ fetch.pages[i].status = "pending"
    /\ fetch' = [fetch EXCEPT !.pages[i].status = "resolved",
                              !.results = MergePage(fetch.results, fetch.pages[i].ids)]
    /\ UNCHANGED <<revision, cmdline, rollupCalls, history, args, pc, queryResults,
                   vso, workItemsHierarchy, workItemsWithFields, keyIdx, stack,
                   batches, delivered, console>>

\* the request of page i fails: vstsApi logs, the page's deferred is rejected
PageReject(i) ==
    /\ i \in 1..Len(fetch.pages)
    /\ fetch.pages[i].status = "pending"
    /\ fetch' = [fetch EXCEPT !.pages[i].status = "rejected"]
    /\ console' = Append(console, [msg |-> "vstsApi error", n |-> <<>>])
    /\ UNCHANGED <<revision, cmdline, rollupCalls, history, args, pc, queryResults,
                   vso, workItemsHierarchy, workItemsWithFields, keyIdx, stack,
                   batches, delivered>>

\* a combinator that resolves once every page has settled, failed pages
\* contributing nothing
FetchAllResolveWhenSettled ==
    /\ pc = "fetch"
    /\ fetch.query = "resolved"
    /\ \A i \in 1..Len(fetch.pages) : fetch.pages[i].status # "pending"
    /\ workItemsWithFields' = fetch.results
    /\ keyIdx' = 1
    /\ rollupCalls' = 1
    /\ pc' = "rollup"
    /\ UNCHANGED <<revision, cmdline, fetch, history, args, queryResults, vso,
                   workItemsHierarchy, stack, batches, delivered, console>>

\* q.all resolves once every page has resolved: getWorkItemFields resolves with
\* the collated results and the .then calls rollupCosts
FetchAllResolve ==
    /\ pc = "fetch"
    /\ fetch.query = "resolved"
    /\ \A i \in 1..Len(fetch.pages) : fetch.pages[i].status = "resolved"
    /\ workItemsWithFields' = fetch.results
    /\ keyIdx' = 1
    /\ rollupCalls' = 1
    /\ pc' = "rollup"
    /\ UNCHANGED <<revision, cmdline, fetch, history, args, queryResults, vso,
                   workItemsHierarchy, stack, batches, delivered, console>>

\* q.all rejects as soon as one page has been rejected: getWorkItemFields
\* rejects, its .catch logs and rethrows, and the rejection reaches the last .catch
FetchAllReject ==
    /\ pc = "fetch"
    /\ fetch.query = "resolved"
    /\ \E i \in 1..Len(fetch.pages) : fetch.pages[i].status = "rejected"
    /\ console' = Append(console, [msg |-> "Error from getWorkItemFields()", n |-> <<>>])
    /\ delivered' = [kind |-> "error", value |-> Undefined]
    /\ pc' = "report"
    /\ UNCHANGED <<revision, cmdline, fetch, rollupCalls, history, args, queryResults,
                   vso, workItemsHierarchy, workItemsWithFields, keyIdx, stack,
                   batches>>

-----------------------------------------------------------------------------
(* Update-decision policy *)

\* a missing current value taken as it is, as the earlier revision does
CurrentValueNoDefault(workItemFields, fieldName) ==
    workItemFields.fields[fieldName]

\* var currentValue = workItemFields.fields[fieldName] || 0  (app.js: without || 0)
CurrentValue(workItemFields, fieldName) ==
    IF revision = "rollupcosts"
    THEN Num(OrZero(workItemFields.fields[fieldName]))
    ELSE workItemFields.fields[fieldName]

\* The callback of _.some from field k on: _.some stops at the first field for
\* which the callback returns true, so netSum holds the fields visited so far.
\* isNaN records that undefined was added to netSum.
RECURSIVE SomeValueUpdated(_, _, _, _)
SomeValueUpdated(workItemFields, k, netSum, isNaN) ==
    IF k > Len(fieldsToRollup)
    THEN [some |-> FALSE, netSum |-> netSum, isNaN |-> isNaN]
    ELSE LET fieldName    == fieldsToRollup[k]
             rollupValue  == workItemFields.state.rollupInfo[fieldName]
             currentValue == CurrentValue(workItemFields, fieldName)
             nan2         == isNaN \/ rollupValue = Undefined \/ currentValue = Undefined
             sum2         == IF nan2 THEN 0 ELSE netSum + rollupValue[1] + currentValue[1]
         IN  IF rollupValue # Undefined /\ currentValue # rollupValue
             THEN [some |-> TRUE, netSum |-> sum2, isNaN |-> nan2]
             ELSE SomeValueUpdated(workItemFields, k + 1, sum2, nan2)

\* a plain difference test: any field whose stored value is not the computed one
evaluateUpdateRequiredPlainDiff(workItemFields) ==
    \E f \in FieldNames :
        /\ workItemFields.state.rollupInfo[f] # Undefined
        /\ workItemFields.fields[f] # workItemFields.state.rollupInfo[f]

\* evaluateUpdateRequired: netSum > 0 && isSomeValueUpdated (NaN > 0 is false)
evaluateUpdateRequired(workItemFields) ==
    LET r == SomeValueUpdated(workItemFields, 1, 0, FALSE)
    IN  (~r.isNaN) /\ r.netSum > 0 /\ r.some

-----------------------------------------------------------------------------
(* Rollup engine *)

IsLeaf(itemId) == itemId \notin DOMAIN workItemsHierarchy

\* the leaf copy without the default: a missing field stays undefined
LeafRollupInfoNoDefault(fields) == [f \in FieldNames |-> fields[f]]

\* a leaf branch that rounds the copied value to 2 decimal places
LeafRollupInfoRounded(fields) == [f \in FieldNames |-> Num(Round2(OrZero(fields[f])))]

\* leaf branch: rollupInfo[fieldName] = fields[fieldName] || 0
LeafRollupInfo(fields) == [f \in FieldNames |-> Num(OrZero(fields[f]))]

\* a + b on values that may be undefined (undefined + x is NaN, kept as undefined)
Plus(a, b) == IF a = Undefined \/ b = Undefined THEN Undefined ELSE Num(a[1] + b[1])

\* the inner loop without its rounding line, as in the earlier revision
RoundStepNone(x) == x

\* the rounding line of the inner loop (app.js has no such line)
RoundStep(x) ==
    IF x = Undefined \/ revision # "rollupcosts" THEN x ELSE Num(Round2(x[1]))

\* an inner loop that marks the parent processed as soon as a child is added
AddChildMarking(w, itemId, childId) ==
    [w EXCEPT ![itemId].state.rollupInfo =
                 [f \in FieldNames |->
                     RoundStep(Plus(w[itemId].state.rollupInfo[f],
                                    w[childId].state.rollupInfo[f]))],
              ![itemId].state.isProcessed = TRUE]

\* the inner _.each of rollupCostsForItem: add one child's rollupInfo, then round
AddChild(w, itemId, childId) ==
    [w EXCEPT ![itemId].state.rollupInfo =
        [f \in FieldNames |->
            RoundStep(Plus(w[itemId].state.rollupInfo[f], w[childId].state.rollupInfo[f]))]]

\* last lines that evaluate the item without marking it processed
MarkProcessedUnmarked(w, itemId) ==
    [w EXCEPT ![itemId].state.isUpdateRequired = evaluateUpdateRequired(w[itemId])]

\* the last two lines of rollupCostsForItem
MarkProcessed(w, itemId) ==
    LET w2 == [w EXCEPT ![itemId].state.isProcessed = TRUE]
    IN  [w2 EXCEPT ![itemId].state.isUpdateRequired = evaluateUpdateRequired(w2[itemId])]

\* a leaf visit that also writes the defaulted values back into the snapshot
VisitLeafNormalizing(w, itemId) ==
    MarkProcessed([w EXCEPT ![itemId].state.rollupInfo = LeafRollupInfo(w[itemId].fields),
                            ![itemId].fields = LeafRollupInfo(w[itemId].fields)],
                  itemId)

\* rollupCostsForItem on a leaf item: copy the fields and finish
VisitLeaf(w, itemId) ==
    MarkProcessed([w EXCEPT ![itemId].state.rollupInfo = LeafRollupInfo(w[itemId].fields)],
                  itemId)

\* an item that is marked processed as soon as it is entered
EnterParentMarked(w, itemId) ==
    [w EXCEPT ![itemId].state.rollupInfo = [f \in FieldNames |-> Num(0)],
              ![itemId].state.isProcessed = TRUE]

\* accumulators that start from the totals stored on the parent item
EnterParentFromStored(w, itemId) ==
    [w EXCEPT ![itemId].state.rollupInfo = LeafRollupInfo(w[itemId].fields)]

\* the start of rollupCostsForItem on an item with children: the accumulators are zeroed
EnterParent(w, itemId) ==
    [w EXCEPT ![itemId].state.rollupInfo = [f \in FieldNames |-> Num(0)]]

\* an exception that is swallowed: the chain goes on to printUpdatePlan
ThrowSwallowed ==
    /\ pc' = "print"
    /\ delivered' = delivered
    /\ stack' = <<>>

\* workItemFields.state on an id without a snapshot throws a TypeError, which the
\* promise chain hands to its .catch
Throw ==
    /\ pc' = "report"
    /\ delivered' = [kind |-> "error", value |-> Undefined]
    /\ stack' = <<>>

\* a guard that never finds an item processed
AlreadyProcessedNever(w, itemId) == FALSE

\* a guard that reads the other flag of the computation state
AlreadyProcessedIfFlagged(w, itemId) == w[itemId].state.isUpdateRequired

\* the guard at the top of rollupCostsForItem: if (workItemFields.state.isProcessed) return
AlreadyProcessed(w, itemId) == w[itemId].state.isProcessed

\* the recursive call for childId would exceed the call stack of the runtime: a
\* RangeError is thrown, which the promise chain hands to its .catch like any
\* other exception
StackOverflow(childId) ==
    /\ childId \in DOMAIN workItemsWithFields
    /\ ~AlreadyProcessed(workItemsWithFields, childId)
    /\ ~IsLeaf(childId)
    /\ Len(stack) >= MaxDepth

HierarchyKeys == SortedIds(DOMAIN workItemsHierarchy)

\* rollupCosts: one iteration of _.each over the keys of workItemsHierarchy
RollupEach ==
    /\ pc = "rollup"
    /\ stack = <<>>
    /\ keyIdx <= Len(HierarchyKeys)
    /\ LET itemId == HierarchyKeys[keyIdx]
       IN  IF itemId \notin DOMAIN workItemsWithFields
           THEN /\ Throw
                /\ UNCHANGED <<workItemsWithFields, keyIdx>>
           ELSE /\ keyIdx' = keyIdx + 1
                /\ UNCHANGED <<pc, delivered>>
                /\ IF AlreadyProcessed(workItemsWithFields, itemId)
                   THEN UNCHANGED <<workItemsWithFields, stack>>
                   ELSE /\ workItemsWithFields' = EnterParent(workItemsWithFields, itemId)
                        /\ stack' = <<[itemId |-> itemId, idx |-> 1]>>
    /\ UNCHANGED <<revision, cmdline, fetch, rollupCalls, history, args,
                   queryResults, vso, workItemsHierarchy, batches, console>>

\* the recursive call for the next child of the item on top of the stack; a child
\* that is processed already or is a leaf returns at once and is added
RollupChild ==
    /\ pc = "rollup"
    /\ stack # <<>>
    /\ LET top      == stack[Len(stack)]
           children == workItemsHierarchy[top.itemId]
       IN  /\ top.idx <= Len(children)
           /\ LET childId == children[top.idx]
                  next    == [stack EXCEPT ![Len(stack)].idx = top.idx + 1]
              IN  IF \/ childId \notin DOMAIN workItemsWithFields
                     \/ StackOverflow(childId)
                  THEN /\ Throw
                       /\ UNCHANGED <<workItemsWithFields>>
                  ELSE /\ UNCHANGED <<pc, delivered>>
                       /\ IF AlreadyProcessed(workItemsWithFields, childId)
                          THEN /\ workItemsWithFields' =
                                     AddChild(workItemsWithFields, top.itemId, childId)
                               /\ stack' = next
                          ELSE IF IsLeaf(childId)
                          THEN /\ workItemsWithFields' =
                                     AddChild(VisitLeaf(workItemsWithFields, childId),
                                              top.itemId, childId)
                               /\ stack' = next
                          ELSE /\ workItemsWithFields' =
                                     EnterParent(workItemsWithFields, childId)
                               /\ stack' = Append(stack, [itemId |-> childId, idx |-> 1])
    /\ UNCHANGED <<revision, cmdline, fetch, rollupCalls, history, args,
                   queryResults, vso, workItemsHierarchy, keyIdx, batches,
                   console>>

\* the item on top of the stack has added all its children: it is marked
\* processed, evaluated, and its caller adds it
RollupReturn ==
    /\ pc = "rollup"
    /\ stack # <<>>
    /\ LET top  == stack[Len(stack)]
           rest == SubSeq(stack, 1, Len(stack) - 1)
           done == MarkProcessed(workItemsWithFields, top.itemId)
       IN  /\ top.idx > Len(workItemsHierarchy[top.itemId])
           /\ IF rest = <<>>
              THEN /\ workItemsWithFields' = done
                   /\ stack' = rest
              ELSE LET parent == rest[Len(rest)]
                   IN  /\ workItemsWithFields' = AddChild(done, parent.itemId, top.itemId)
                       /\ stack' = [rest EXCEPT ![Len(rest)].idx = parent.idx + 1]
    /\ UNCHANGED <<revision, cmdline, fetch, rollupCalls, history, args, pc,
                   queryResults, vso, workItemsHierarchy, keyIdx, batches,
                   delivered, console>>

\* rollupCosts has visited every key: the chain moves on to printUpdatePlan
RollupDone ==
    /\ pc = "rollup"
    /\ stack = <<>>
    /\ keyIdx > Len(HierarchyKeys)
    /\ pc' = "print"
    /\ UNCHANGED <<revision, cmdline, fetch, rollupCalls, history, args,
                   queryResults, vso, workItemsHierarchy, workItemsWithFields,
                   keyIdx, stack, batches, delivered, console>>

\* rollupCosts called once more on the state a completed roll-up produced
RollupAgain ==
    /\ pc = "print"
    /\ rollupCalls < MaxRollupCalls
    /\ rollupCalls' = rollupCalls + 1
    /\ keyIdx' = 1
    /\ pc' = "rollup"
    /\ UNCHANGED <<revision, cmdline, fetch, history, args, queryResults, vso,
                   workItemsHierarchy, workItemsWithFields, stack, batches,
                   delivered, console>>

\* rollupCostsForItem called once more, from outside the traversal, on an item
\* that a completed roll-up has visited
RollupItemAgain(itemId) ==
    /\ pc = "print"
    /\ rollupCalls < MaxRollupCalls
    /\ itemId \in DOMAIN workItemsWithFields
    /\ workItemsWithFields[itemId].state.isProcessed
    /\ rollupCalls' = rollupCalls + 1
    /\ IF AlreadyProcessed(workItemsWithFields, itemId)
       THEN UNCHANGED <<workItemsWithFields, stack, keyIdx, pc>>
       ELSE IF IsLeaf(itemId)
       THEN /\ workItemsWithFields' = VisitLeaf(workItemsWithFields, itemId)
            /\ UNCHANGED <<stack, keyIdx, pc>>
       ELSE /\ workItemsWithFields' = EnterParent(workItemsWithFields, itemId)
            /\ stack' = <<[itemId |-> itemId, idx |-> 1]>>
            /\ keyIdx' = Len(HierarchyKeys) + 1
            /\ pc' = "rollup"
    /\ UNCHANGED <<revision, cmdline, fetch, history, args, queryResults, vso,
                   workItemsHierarchy, batches, delivered, console>>

-----------------------------------------------------------------------------
(* Update plan and batched write-back *)

\* printUpdatePlan: without --verbose, the rows of the items to update.  In app.js
\* after --help args is undefined and reading args.verbose throws.
PrintUpdatePlan ==
    /\ pc = "print"
    /\ IF ~args.defined
       THEN /\ Throw
            /\ UNCHANGED console
       ELSE /\ pc' = "decide"
            /\ console' = Append(console,
                  [msg |-> "plan",
                   n   |-> FilterSeq(SortedIds(DOMAIN workItemsWithFields),
                              {id \in DOMAIN workItemsWithFields :
                                  workItemsWithFields[id].state.isUpdateRequired})])
            /\ UNCHANGED <<delivered, stack>>
    /\ UNCHANGED <<revision, cmdline, fetch, rollupCalls, history, args,
                   queryResults, vso, workItemsHierarchy, workItemsWithFields,
                   keyIdx, batches>>

\* a text that keeps the whole units of a number only
NumberToTextWhole(x) ==
    IF x = Undefined THEN [isNumber |-> FALSE, digits |-> 0]
    ELSE [isNumber |-> TRUE, digits |-> (x[1] \div 1000) * 1000]

\* `${value}`: the decimal text of a number, or the text "undefined"
NumberToText(x) ==
    IF x = Undefined THEN [isNumber |-> FALSE, digits |-> 0]
    ELSE [isNumber |-> TRUE, digits |-> x[1]]

\* the number a decimal text denotes, as the external system stores it
ParseNumber(t) == IF t.isNumber THEN Num(t.digits) ELSE Undefined

\* const ids = _.map(vsoItems.workItemsWithFields, (v,id) => id)
Ids == SortedIds(DOMAIN workItemsWithFields)

\* _.filter(ids, id => ...state.isUpdateRequired)
FilteredIds ==
    FilterSeq(Ids, {id \in DOMAIN workItemsWithFields :
                       workItemsWithFields[id].state.isUpdateRequired})

\* args.forcecap || config.get('maxUpdates')
Cap == IF args.forcecap = Undefined \/ args.forcecap = Num(0)
       THEN MaxUpdates ELSE args.forcecap[1]

\* _.take(filteredIds, cap)
CappedIds == Take(FilteredIds, Cap)

\* _.chunk(cappedIds, batchSize)
ChunkedIds == Chunk(CappedIds, BatchSize)

\* the PATCH descriptor of one item: one replace operation per rollup field
PatchOp(id) ==
    [method |-> "PATCH",
     id     |-> id,
     body   |-> [k \in 1..Len(fieldsToRollup) |->
                   [op    |-> "replace",
                    path  |-> fieldsToRollup[k],
                    value |-> NumberToText(
                        workItemsWithFields[id].state.rollupInfo[fieldsToRollup[k]])]]]

\* one POST to $batch, as submitted by the loop over chunkedIds
BatchRequest(idsToUpdate) ==
    [idsToUpdate   |-> idsToUpdate,
     patchRequests |-> [k \in 1..Len(idsToUpdate) |-> PatchOp(idsToUpdate[k])],
     status        |-> "pending"]

\* what updateCosts hands back when there is nothing to write: rollupcosts.js
\* returns a promise resolved with 0, app.js returns the result of
\* deferred.resolve(0), which is undefined
EmptyResult == IF revision = "rollupcosts" THEN Num(0) ELSE Undefined

\* the warning of updateCosts, logged when capping drops items
CapWarning ==
    IF Len(FilteredIds) # Len(CappedIds)
    THEN <<[msg |-> "Warning: capping", n |-> <<Len(FilteredIds), Len(CappedIds)>>]>>
    ELSE <<>>

\* the .then after printUpdatePlan: safe mode skips the update, otherwise
\* updateCosts filters, caps, chunks and submits every batch
WriteStep ==
    /\ pc = "decide"
    /\ IF args.safe
       THEN /\ console' = Append(console, [msg |-> "Skipping update", n |-> <<>>])
            /\ delivered' = [kind |-> "value", value |-> Num(0)]
            /\ pc' = "report"
            /\ UNCHANGED batches
       ELSE /\ console' = Append(console, [msg |-> "Writing updated costs", n |-> <<>>])
                              \o CapWarning
            /\ IF ChunkedIds = <<>>
               THEN /\ delivered' = [kind |-> "value", value |-> EmptyResult]
                    /\ pc' = "report"
                    /\ UNCHANGED batches
               ELSE /\ batches' = [k \in 1..Len(ChunkedIds) |-> BatchRequest(ChunkedIds[k])]
                    /\ pc' = "writing"
                    /\ UNCHANGED delivered
    /\ UNCHANGED <<revision, cmdline, fetch, rollupCalls, history, args,
                   queryResults, vso, workItemsHierarchy, workItemsWithFields,
                   keyIdx, stack>>

\* an external system that accepts a batch without storing anything
ApplyBatchNothing(store, batch) == store

\* the external system after applying the patch operations of one batch
ApplyBatch(store, batch) ==
    [id \in DOMAIN store |->
        IF \E k \in 1..Len(batch.patchRequests) : batch.patchRequests[k].id = id
        THEN LET req == batch.patchRequests[
                           CHOOSE k \in 1..Len(batch.patchRequests) :
                               batch.patchRequests[k].id = id]
             IN  [f \in FieldNames |->
                    IF \E j \in 1..Len(req.body) : req.body[j].path = f
                    THEN ParseNumber(req.body[CHOOSE j \in 1..Len(req.body) :
                                                 req.body[j].path = f].value)
                    ELSE store[id][f]]
        ELSE store[id]]

\* the external system accepts batch i: its patches are stored and the batch's
\* deferred is resolved with idsToUpdate.length
BatchResolve(i) ==
    /\ i \in 1..Len(batches)
    /\ batches[i].status = "pending"
    /\ batches' = [batches EXCEPT ![i].status = "resolved"]
    /\ vso' = ApplyBatch(vso, batches[i])
    /\ UNCHANGED <<revision, cmdline, fetch, rollupCalls, history, args, pc,
                   queryResults, workItemsHierarchy, workItemsWithFields,
                   keyIdx, stack, delivered, console>>

\* the external system rejects batch i: nothing is stored, the batch's deferred
\* is rejected
BatchReject(i) ==
    /\ i \in 1..Len(batches)
    /\ batches[i].status = "pending"
    /\ batches' = [batches EXCEPT ![i].status = "rejected"]
    /\ console' = Append(console, [msg |-> "vstsApi error", n |-> <<>>])
    /\ UNCHANGED <<revision, cmdline, fetch, rollupCalls, history, args, pc,
                   queryResults, vso, workItemsHierarchy, workItemsWithFields,
                   keyIdx, stack, delivered>>

\* _.reduce(resultArray, (sum, x) => sum + x, 0) over the batches' results
RECURSIVE SumResults(_)
SumResults(bs) ==
    IF bs = <<>> THEN 0 ELSE Len(Head(bs).idsToUpdate) + SumResults(Tail(bs))

\* a combinator that resolves once every batch has settled, rejected ones counting
\* for nothing
AllResolveWhenSettled ==
    /\ pc = "writing"
    /\ \A i \in 1..Len(batches) : batches[i].status # "pending"
    /\ delivered' = [kind |-> "value", value |-> Num(SumResults(batches))]
    /\ pc' = "report"
    /\ UNCHANGED <<revision, cmdline, fetch, rollupCalls, history, args,
                   queryResults, vso, workItemsHierarchy, workItemsWithFields,
                   keyIdx, stack, batches, console>>

\* a combinator that resolves with the first batch that resolves, delivering
\* what has resolved so far
AllResolveOnFirst ==
    /\ pc = "writing"
    /\ \E i \in 1..Len(batches) : batches[i].status = "resolved"
    /\ delivered' =
          [kind  |-> "value",
           value |-> Num(SumResults(SelectSeq(batches, LAMBDA b : b.status = "resolved")))]
    /\ pc' = "report"
    /\ UNCHANGED <<revision, cmdline, fetch, rollupCalls, history, args,
                   queryResults, vso, workItemsHierarchy, workItemsWithFields,
                   keyIdx, stack, batches, console>>

\* q.all resolves once every batch has resolved: updateCosts delivers the sum
AllResolve ==
    /\ pc = "writing"
    /\ \A i \in 1..Len(batches) : batches[i].status = "resolved"
    /\ delivered' = [kind |-> "value", value |-> Num(SumResults(batches))]
    /\ pc' = "report"
    /\ UNCHANGED <<revision, cmdline, fetch, rollupCalls, history, args,
                   queryResults, vso, workItemsHierarchy, workItemsWithFields,
                   keyIdx, stack, batches, console>>

\* a rejection that undoes the batches committed so far
AllRejectRollback ==
    /\ pc = "writing"
    /\ \E i \in 1..Len(batches) : batches[i].status = "rejected"
    /\ delivered' = [kind |-> "error", value |-> Undefined]
    /\ pc' = "report"
    /\ vso' = [id \in DOMAIN vso |->
                 IF id \in DOMAIN workItemsWithFields
                 THEN workItemsWithFields[id].fields ELSE vso[id]]
    /\ UNCHANGED <<revision, cmdline, fetch, rollupCalls, history, args,
                   queryResults, workItemsHierarchy, workItemsWithFields,
                   keyIdx, stack, batches, console>>

\* q.all rejects as soon as one batch has been rejected: updateCosts rejects
AllReject ==
    /\ pc = "writing"
    /\ \E i \in 1..Len(batches) : batches[i].status = "rejected"
    /\ delivered' = [kind |-> "error", value |-> Undefined]
    /\ pc' = "report"
    /\ UNCHANGED <<revision, cmdline, fetch, rollupCalls, history, args,
                   queryResults, vso, workItemsHierarchy, workItemsWithFields,
                   keyIdx, stack, batches, console>>

\* the last .then and the .catch of the chain
Report ==
    /\ pc = "report"
    /\ console' = Append(console,
          IF delivered.kind = "error"
          THEN [msg |-> "Encountered an error", n |-> <<>>]
          ELSE [msg |-> "Count of vso items updated", n |-> delivered.value])
    /\ pc' = "finally"
    /\ UNCHANGED <<revision, cmdline, fetch, rollupCalls, history, args,
                   queryResults, vso, workItemsHierarchy, workItemsWithFields,
                   keyIdx, stack, batches, delivered>>

\* .finally
Done ==
    /\ pc = "finally"
    /\ console' = Append(console, [msg |-> "Done", n |-> <<>>])
    /\ pc' = "done"
    /\ UNCHANGED <<revision, cmdline, fetch, rollupCalls, history, args,
                   queryResults, vso, workItemsHierarchy, workItemsWithFields,
                   keyIdx, stack, batches, delivered>>

\* the ids of the batches that have the given status
IdsOfBatches(status) ==
    UNION { {batches[i].idsToUpdate[k] : k \in 1..Len(batches[i].idsToUpdate)} :
              i \in {j \in 1..Len(batches) : batches[j].status = status} }

\* the program is run again over the external system as the last run left it.
\* The process of the last run has exited, which it does only when no request
\* is outstanding.  The record kept of the last run is what it flagged, what the
\* external system committed and what it rejected.
RunAgain ==
    /\ pc = "done"
    /\ Len(history) + 1 < MaxRuns
    /\ \A i \in 1..Len(batches) : batches[i].status # "pending"
    /\ history' = Append(history,
          [flagged   |-> {id \in DOMAIN workItemsWithFields :
                            workItemsWithFields[id].state.isUpdateRequired},
           committed |-> IdsOfBatches("resolved"),
           failed    |-> IdsOfBatches("rejected")])
    /\ args' = cmdline
    /\ pc' = "start"
    /\ workItemsHierarchy' = <<>>
    /\ workItemsWithFields' = <<>>
    /\ keyIdx' = 1
    /\ stack' = <<>>
    /\ batches' = <<>>
    /\ delivered' = [kind |-> "none", value |-> Undefined]
    /\ console' = <<>>
    /\ rollupCalls' = 0
    /\ fetch' = [query |-> "pending", pages |-> <<>>, results |-> <<>>]
    /\ UNCHANGED <<revision, cmdline, queryResults, vso>>

-----------------------------------------------------------------------------
(* Inputs of a run and the specifications *)

Rel(source, target) == [rel |-> HierarchyForward, source |-> source, target |-> target]

\* the row of a top-level item: no link type and a null source (0)
Top(target) == [rel |-> "null", source |-> 0, target |-> target]

Related(source, target) ==
    [rel |-> "System.LinkTypes.Related", source |-> source, target |-> target]

\* query results for the roll-up: a parent of two leaves beside an item without
\* parent or children, a two-level tree, a child shared by two parents, a link of
\* another kind, a parent whose id is larger than its child's, and a relation
\* that is listed twice between relations of other parents and other kinds
RollupQueries ==
    { <<Top(1), Rel(1, 2), Rel(1, 3), Top(4)>>,
      <<Top(1), Rel(1, 3), Rel(2, 4), Related(1, 4), Rel(1, 2), Rel(1, 3)>>,
      <<Top(1), Rel(1, 2), Rel(2, 3), Rel(2, 4)>>,
      <<Top(1), Top(2), Rel(1, 3), Rel(2, 3), Rel(2, 4)>>,
      <<Top(1), Rel(1, 2), Related(1, 3), Rel(1, 4)>>,
      <<Top(2), Rel(2, 1), Rel(1, 3), Rel(1, 4)>> }

\* query results for the write-back: three parents in a chain, and three
\* parents of which two share a child
WriteQueries ==
    { <<Top(1), Rel(1, 2), Rel(2, 3), Rel(3, 4)>>,
      <<Top(1), Rel(1, 2), Rel(1, 3), Rel(2, 4), Rel(3, 4)>> }

Costs(remaining, estimate) ==
    [f \in FieldNames |-> IF f = "RemainingWork" THEN remaining ELSE estimate]

\* stored cost fields of one item, in thousandths: not costed, zero, fractions of
\* a cent, whole cents, negative values
RollupCosts ==
    { Costs(Undefined, Undefined), Costs(Num(0), Num(0)), Costs(Num(4), Num(10)),
      Costs(Num(-10), Num(20)), Costs(Num(5), Num(-5)) }
    \cup { Costs(Num(10 * c), Undefined) : c \in 1..MaxCents }

WriteCosts == { Costs(Undefined, Undefined), Costs(Num(10), Undefined) }

Forcecaps == {Undefined} \cup {Num(n) : n \in 0..MaxForcecap}

Options(help, apply, safe, forcecap) ==
    [defined |-> FALSE, help |-> help, apply |-> apply, safe |-> safe, forcecap |-> forcecap]

\* the command lines of a revision: app.js has no --apply
Cmdlines(rev) ==
    {Options(TRUE, FALSE, FALSE, Undefined)}
    \cup { Options(FALSE, a, s, c) :
             a \in (IF rev = "rollupcosts" THEN BOOLEAN ELSE {FALSE}),
             s \in BOOLEAN, c \in Forcecaps }

\* the state of the program as the script starts
Start ==
    /\ args = cmdline
    /\ pc = "start"
    /\ workItemsHierarchy = <<>>
    /\ workItemsWithFields = <<>>
    /\ keyIdx = 1
    /\ stack = <<>>
    /\ batches = <<>>
    /\ delivered = [kind |-> "none", value |-> Undefined]
    /\ console = <<>>
    /\ fetch = [query |-> "pending", pages |-> <<>>, results |-> <<>>]
    /\ rollupCalls = 0
    /\ history = <<>>

\* rollupcosts.js --apply (or -h) over every stored cost assignment
Init ==
    /\ revision = "rollupcosts"
    /\ cmdline \in {Options(TRUE, FALSE, FALSE, Undefined),
                    Options(FALSE, TRUE, FALSE, Undefined)}
    /\ queryResults \in RollupQueries
    /\ vso \in [Items -> RollupCosts]
    /\ Start

\* both revisions under every command line
InitWrite ==
    /\ revision \in {"rollupcosts", "app"}
    /\ cmdline \in Cmdlines(revision)
    /\ queryResults \in WriteQueries
    /\ vso \in [Items -> WriteCosts]
    /\ Start

Next ==
    \/ ProcessCommandline
    \/ QueryResolve
    \/ FetchResolve
    \/ RollupEach
    \/ RollupChild
    \/ RollupReturn
    \/ RollupDone
    \/ PrintUpdatePlan
    \/ WriteStep
    \/ \E i \in 1..Len(batches) : BatchResolve(i)
    \/ \E i \in 1..Len(batches) : BatchReject(i)
    \/ AllResolve
    \/ AllReject
    \/ Report
    \/ Done

Spec == Init /\ [][Next]_vars

SpecWrite == InitWrite /\ [][Next]_vars

\* query results with a cycle: below a top-level item and after a leaf, an item
\* that is its own child, a cycle through the first key, and a cycle that is
\* reached after the tree of an earlier key
CyclicQueries ==
    { <<Top(1), Rel(1, 4), Rel(1, 2), Rel(2, 3), Rel(3, 2)>>,
      <<Top(1), Rel(1, 2), Rel(2, 2), Rel(2, 3)>>,
      <<Rel(1, 2), Rel(2, 1), Top(3), Rel(3, 4)>>,
      <<Top(1), Rel(1, 2), Rel(3, 4), Rel(4, 3)>> }

\* the external system holds every item, or all but one
Stores == {Items} \cup { Items \ {id} : id \in Items }

\* rollupcosts.js with and without --apply over hierarchies with and without a
\* cycle, the fetch returning a snapshot of every item the external system holds
InitFaults ==
    /\ revision = "rollupcosts"
    /\ cmdline \in {Options(FALSE, TRUE, FALSE, Undefined),
                    Options(FALSE, FALSE, FALSE, Undefined)}
    /\ queryResults \in WriteQueries \cup CyclicQueries
    /\ \E held \in Stores : vso \in [held -> WriteCosts]
    /\ Start

SpecFaults == InitFaults /\ [][Next]_vars

\* stored cost fields for the repeated runs: not costed, a whole cent, a negative
\* value beside a larger positive one
RerunCosts == WriteCosts \cup { Costs(Num(-10), Num(20)) }

\* either revision, writing, run repeatedly over one external system
InitRerun ==
    /\ revision \in {"rollupcosts", "app"}
    /\ cmdline \in { Options(FALSE, revision = "rollupcosts", FALSE, c) :
                       c \in {Undefined, Num(1), Num(MaxForcecap)} }
    /\ queryResults \in WriteQueries
    /\ vso \in [Items -> RerunCosts]
    /\ Start

NextRerun ==
    \/ Next
    \/ RunAgain

SpecRerun == InitRerun /\ [][NextRerun]_vars

\* a step of the traversal
RollupStep == RollupEach \/ RollupChild \/ RollupReturn \/ RollupDone

\* the same runs, in which the traversal, being synchronous code, is not
\* suspended for ever: it runs until it returns or throws
SpecFaultsFair == InitFaults /\ [][Next]_vars /\ WF_vars(RollupStep)

\* rollupcosts.js with and without --apply, the query and every page of the
\* field fetch answering or failing
InitPaged ==
    /\ revision = "rollupcosts"
    /\ cmdline \in {Options(FALSE, TRUE, FALSE, Undefined),
                    Options(FALSE, FALSE, FALSE, Undefined)}
    /\ queryResults \in WriteQueries
    /\ vso \in [Items -> WriteCosts]
    /\ Start

\* the run with the requests of the read phase taken one by one
NextPaged ==
    \/ ProcessCommandline
    \/ QueryReject
    \/ QueryResolvePaged
    \/ \E i \in 1..Len(fetch.pages) : PageResolve(i)
    \/ \E i \in 1..Len(fetch.pages) : PageReject(i)
    \/ FetchAllResolve
    \/ FetchAllReject
    \/ RollupStep
    \/ PrintUpdatePlan
    \/ WriteStep
    \/ \E i \in 1..Len(batches) : BatchResolve(i)
    \/ \E i \in 1..Len(batches) : BatchReject(i)
    \/ AllResolve
    \/ AllReject
    \/ Report
    \/ Done

SpecPaged == InitPaged /\ [][NextPaged]_vars

\* the same runs, in which every request is answered or fails after a while and
\* every queued handler is run
SpecPagedFair == SpecPaged /\ WF_vars(NextPaged)

\* rollupcosts.js --apply (or -h) in which the traversal may be entered again
\* after rollupCosts has returned
InitReentry ==
    /\ revision = "rollupcosts"
    /\ cmdline \in {Options(TRUE, FALSE, FALSE, Undefined),
                    Options(FALSE, TRUE, FALSE, Undefined)}
    /\ queryResults \in RollupQueries
    /\ vso \in [Items -> WriteCosts]
    /\ Start

NextReentry ==
    \/ Next
    \/ RollupAgain
    \/ \E itemId \in Items : RollupItemAgain(itemId)

SpecReentry == InitReentry /\ [][NextReentry]_vars

-----------------------------------------------------------------------------
(* Vocabulary of the properties *)

Logged(m) == \E k \in 1..Len(console) : console[k].msg = m

\* rollupCosts has returned normally (the plan is printed next, or was printed)
RollupCompleted ==
    \/ pc \in {"print", "decide", "writing"}
    \/ pc \in {"report", "finally", "done"} /\ Logged("plan")

\* updateCosts has been called
WriteStarted == Logged("Writing updated costs")

Snapshots == DOMAIN workItemsWithFields

Parents == DOMAIN workItemsHierarchy \cap Snapshots

Leaves == Snapshots \ DOMAIN workItemsHierarchy

IsChild(id) ==
    \E p \in DOMAIN workItemsHierarchy :
        \E k \in 1..Len(workItemsHierarchy[p]) : workItemsHierarchy[p][k] = id

RollupOf(id, f) == workItemsWithFields[id].state.rollupInfo[f]

StoredOf(id, f) == workItemsWithFields[id].fields[f]

\* exact sum of the children's computed values of field f
RECURSIVE ExactSum(_, _)
ExactSum(children, f) ==
    IF children = <<>> THEN 0
    ELSE RollupOf(Head(children), f)[1] + ExactSum(Tail(children), f)

\* the children's computed values of field f added in order to acc, the sum
\* rounded to 2 decimal places after each addition
RECURSIVE SumRoundingEach(_, _, _)
SumRoundingEach(children, f, acc) ==
    IF children = <<>> THEN acc
    ELSE SumRoundingEach(Tail(children), f, Round2(acc + RollupOf(Head(children), f)[1]))

WholeCents(children, f) ==
    \A k \in 1..Len(children) : RollupOf(children[k], f)[1] % 10 = 0

Flagged == {id \in Snapshots : workItemsWithFields[id].state.isUpdateRequired}

\* the cap of the run: --forcecap when given and not 0, else the configured maxUpdates
EffectiveCap ==
    IF cmdline.forcecap \in {Undefined, Num(0)} THEN MaxUpdates ELSE cmdline.forcecap[1]

\* the first EffectiveCap flagged ids in ascending id order, as a set
FirstFlagged ==
    {id \in Flagged : Cardinality({j \in Flagged : j < id}) < EffectiveCap}

\* every id submitted, batch after batch
RECURSIVE SubmittedIds(_)
SubmittedIds(bs) ==
    IF bs = <<>> THEN <<>> ELSE Head(bs).idsToUpdate \o SubmittedIds(Tail(bs))

Ascending(s) == \A i, j \in 1..Len(s) : i < j => s[i] < s[j]

-----------------------------------------------------------------------------
(* C1 *)

\* C1 as stated: after rollupCosts completes, every parent's rollupInfo[f] is
\* round2 applied once to the exact sum of its direct children's rollupInfo[f].
C1_RoundedOnce ==
    RollupCompleted =>
        \A id \in Parents : \A f \in FieldNames :
            RollupOf(id, f) = Num(Round2(ExactSum(workItemsHierarchy[id], f)))

\* C1 amended: after rollupCosts completes, every parent's rollupInfo[f] is the
\* result of adding its direct children's rollupInfo[f] in order, rounding to 2
\* decimal places after each addition; it equals round2 of the exact sum
\* whenever every child's value has at most 2 decimal places.
C1_RoundedAfterEachAddition ==
    RollupCompleted =>
        \A id \in Parents : \A f \in FieldNames :
            /\ RollupOf(id, f) = Num(SumRoundingEach(workItemsHierarchy[id], f, 0))
            /\ WholeCents(workItemsHierarchy[id], f) =>
                   RollupOf(id, f) = Num(Round2(ExactSum(workItemsHierarchy[id], f)))

\* a completed roll-up with a parent of several children for which rounding
\* after each addition and rounding the sum once differ
C1_Witness ==
    /\ RollupCompleted
    /\ \E id \in Parents : \E f \in FieldNames :
           /\ Len(workItemsHierarchy[id]) >= 2
           /\ RollupOf(id, f) # Num(Round2(ExactSum(workItemsHierarchy[id], f)))
           /\ RollupOf(id, f) = Num(SumRoundingEach(workItemsHierarchy[id], f, 0))

-----------------------------------------------------------------------------
(* C2 *)

\* C2 as stated: after rollupCosts completes, every leaf with a snapshot, with
\* or without a parent, has rollupInfo[f] = fields[f] when present, else 0.
C2_EveryLeafCopied ==
    RollupCompleted =>
        \A id \in Leaves : \A f \in FieldNames :
            RollupOf(id, f) = Num(OrZero(StoredOf(id, f)))

\* C2 amended: after rollupCosts completes, every leaf that is a child of some
\* parent key has rollupInfo[f] = fields[f] when present, else 0, and is
\* processed; a leaf that is no item's child is never visited: its rollupInfo
\* stays empty and it is neither processed nor flagged.
C2_ChildLeafCopied ==
    RollupCompleted =>
        \A id \in Leaves :
            IF IsChild(id)
            THEN /\ workItemsWithFields[id].state.isProcessed
                 /\ \A f \in FieldNames : RollupOf(id, f) = Num(OrZero(StoredOf(id, f)))
            ELSE /\ ~workItemsWithFields[id].state.isProcessed
                 /\ ~workItemsWithFields[id].state.isUpdateRequired
                 /\ \A f \in FieldNames : RollupOf(id, f) = Undefined

\* a completed roll-up with a child leaf that has one field present and one
\* absent, beside a leaf without a parent
C2_Witness ==
    /\ RollupCompleted
    /\ \E id \in Leaves :
           /\ IsChild(id)
           /\ StoredOf(id, "RemainingWork") = Num(10)
           /\ StoredOf(id, "OriginalEstimate") = Undefined
           /\ RollupOf(id, "RemainingWork") = Num(10)
           /\ RollupOf(id, "OriginalEstimate") = Num(0)
    /\ \E id \in Leaves : ~IsChild(id)

-----------------------------------------------------------------------------
(* C3 *)

\* netSum taken over all the rollup fields, a missing current value read as 0
RECURSIVE NetSumAllFields(_, _)
NetSumAllFields(id, k) ==
    IF k > Len(fieldsToRollup) THEN 0
    ELSE RollupOf(id, fieldsToRollup[k])[1] + OrZero(StoredOf(id, fieldsToRollup[k]))
         + NetSumAllFields(id, k + 1)

\* some field has a defined computed value that differs from its current value
AnyChanged(id) ==
    \E f \in FieldNames :
        RollupOf(id, f) # Undefined /\ RollupOf(id, f)[1] # OrZero(StoredOf(id, f))

\* C3: evaluateUpdateRequired returns exactly (netSum > 0 AND anyChanged), netSum
\* being the sum of rollupValue + currentValue over ALL rollup fields, for every
\* assignment of values, negative values and missing current values included.
C3_NetSumOverAllFields ==
    \A id \in Snapshots :
        workItemsWithFields[id].state.isProcessed =>
            (workItemsWithFields[id].state.isUpdateRequired
                <=> (NetSumAllFields(id, 1) > 0 /\ AnyChanged(id)))

-----------------------------------------------------------------------------
(* C4 *)

Uncosted(id) ==
    \A f \in FieldNames : StoredOf(id, f) = Undefined /\ RollupOf(id, f) = Num(0)

\* C4: an item whose current value is undefined for every rollup field and
\* whose computed rollup is 0 for every rollup field is not flagged for update,
\* and no submitted batch holds a patch for such an item.
C4_UncostedNeverWritten ==
    /\ \A id \in Snapshots :
           (workItemsWithFields[id].state.isProcessed /\ Uncosted(id))
               => ~workItemsWithFields[id].state.isUpdateRequired
    /\ \A i \in 1..Len(batches) : \A k \in 1..Len(batches[i].patchRequests) :
           ~Uncosted(batches[i].patchRequests[k].id)

\* a completed roll-up with an uncosted parent over an uncosted subtree, while
\* another item of the same run is written back
C4_Witness ==
    /\ RollupCompleted
    /\ batches # <<>>
    /\ \E id \in Parents :
           /\ workItemsWithFields[id].state.isProcessed
           /\ Uncosted(id)
           /\ ~workItemsWithFields[id].state.isUpdateRequired

-----------------------------------------------------------------------------
(* C5 *)

NonNegative(id) ==
    \A f \in FieldNames : OrZero(StoredOf(id, f)) >= 0 /\ RollupOf(id, f)[1] >= 0

\* C5: a processed item whose current and computed values are all non-negative
\* and that has a rollup field whose computed value differs from its current
\* value (missing read as 0) is flagged for update.
C5_ChangeFlagged ==
    \A id \in Snapshots :
        (/\ workItemsWithFields[id].state.isProcessed
         /\ NonNegative(id)
         /\ \E f \in FieldNames : RollupOf(id, f)[1] # OrZero(StoredOf(id, f)))
            => workItemsWithFields[id].state.isUpdateRequired

\* a completed roll-up that flags an item storing a value other than the
\* computed one and an item storing nothing for a positive computed value
C5_Witness ==
    /\ RollupCompleted
    /\ \E id \in Parents :
           /\ StoredOf(id, "RemainingWork") = Num(10)
           /\ RollupOf(id, "RemainingWork") = Num(20)
           /\ workItemsWithFields[id].state.isUpdateRequired
    /\ \E id \in Parents :
           /\ StoredOf(id, "RemainingWork") = Undefined
           /\ RollupOf(id, "RemainingWork")[1] > 0
           /\ workItemsWithFields[id].state.isUpdateRequired
    /\ \A id \in Parents : NonNegative(id)

-----------------------------------------------------------------------------
(* C6 *)

\* C6: in rollupcosts.js no batch is submitted and updateCosts is not called
\* unless --apply was given and --safe was not; a run in safe mode that reaches
\* its end has printed the plan and reports an updated count of 0.
C6_SafeUnlessApply ==
    revision = "rollupcosts" =>
        /\ (batches # <<>> \/ WriteStarted) => (cmdline.apply /\ ~cmdline.safe)
        /\ (pc = "done" /\ ~(cmdline.apply /\ ~cmdline.safe)) =>
               /\ Logged("plan")
               /\ Logged("Skipping update")
               /\ \E k \in 1..Len(console) :
                      console[k] = [msg |-> "Count of vso items updated", n |-> Num(0)]

\* a finished run of rollupcosts.js with both --apply and --safe that flagged
\* items and submitted nothing
C6_Witness ==
    /\ revision = "rollupcosts"
    /\ cmdline.apply /\ cmdline.safe
    /\ pc = "done"
    /\ Flagged # {}
    /\ batches = <<>>
    /\ ~WriteStarted

-----------------------------------------------------------------------------
(* C7 *)

\* C7: with --forcecap N the number of items submitted in a run is at most N,
\* for N = 0 and N above maxUpdates too; without it, at most maxUpdates.
C7_ForcecapBoundsWrites ==
    Len(SubmittedIds(batches)) <=
        (IF cmdline.forcecap # Undefined THEN cmdline.forcecap[1] ELSE MaxUpdates)

-----------------------------------------------------------------------------
(* C8 *)

CapWarnings ==
    {k \in 1..Len(console) : console[k].msg = "Warning: capping"}

\* C8: updateCosts submits exactly the first K flagged items in the order of the
\* item table (ascending id), K the cap of the run, and no others; the
\* truncation warning is logged exactly when more than K items are flagged.
C8_FirstKInOrder ==
    WriteStarted =>
        /\ {SubmittedIds(batches)[k] : k \in 1..Len(SubmittedIds(batches))} = FirstFlagged
        /\ Ascending(SubmittedIds(batches))
        /\ (CapWarnings # {}) <=> (Cardinality(Flagged) > EffectiveCap)
        /\ \A k \in CapWarnings :
               console[k].n = <<Cardinality(Flagged), EffectiveCap>>

\* three flagged items under a cap of 2: two are submitted and the warning is logged
C8_Witness ==
    /\ WriteStarted
    /\ Cardinality(Flagged) = 3
    /\ EffectiveCap = 2
    /\ Len(SubmittedIds(batches)) = 2
    /\ CapWarnings # {}

-----------------------------------------------------------------------------
(* C9 *)

\* the patch of one item holds exactly one replace operation per rollup field,
\* carrying the item's computed value
OnePatchPerField(req) ==
    /\ Len(req.body) = Cardinality(FieldNames)
    /\ \A f \in FieldNames :
           Cardinality({j \in 1..Len(req.body) : req.body[j].path = f}) = 1
    /\ \A j \in 1..Len(req.body) :
           /\ req.body[j].op = "replace"
           /\ req.body[j].value = NumberToText(RollupOf(req.id, req.body[j].path))

\* C9: with M capped ids and batch size B, updateCosts submits ceil(M/B)
\* batches of 1 to B items each; every capped id is in exactly one batch, no
\* other id is in any, and each item's patch holds one replace per rollup field.
C9_BatchesPartitionCapped ==
    WriteStarted =>
        LET M == Cardinality(FirstFlagged)
        IN  /\ Len(batches) = (M + BatchSize - 1) \div BatchSize
            /\ \A i \in 1..Len(batches) :
                   /\ Len(batches[i].idsToUpdate) \in 1..BatchSize
                   /\ Len(batches[i].patchRequests) = Len(batches[i].idsToUpdate)
                   /\ \A k \in 1..Len(batches[i].idsToUpdate) :
                          /\ batches[i].idsToUpdate[k] \in FirstFlagged
                          /\ batches[i].patchRequests[k].id = batches[i].idsToUpdate[k]
                          /\ OnePatchPerField(batches[i].patchRequests[k])
            /\ \A id \in FirstFlagged :
                   Cardinality({<<i, k>> \in (1..Len(batches)) \X (1..BatchSize) :
                                   /\ k <= Len(batches[i].idsToUpdate)
                                   /\ batches[i].idsToUpdate[k] = id}) = 1

\* three capped ids in batches of 2: a full batch and a batch of one
C9_Witness ==
    /\ WriteStarted
    /\ Cardinality(FirstFlagged) = 3
    /\ Len(batches) = 2
    /\ Len(batches[1].idsToUpdate) = 2
    /\ Len(batches[2].idsToUpdate) = 1

-----------------------------------------------------------------------------
(* C10 *)

\* C10: in both revisions, the value updateCosts delivers when every batch
\* succeeded is the number of capped items, and with no flagged item it is the
\* number 0, delivered without submitting a batch.
C10_DeliversCount ==
    (WriteStarted /\ delivered.kind = "value") =>
        /\ delivered.value = Num(Cardinality(FirstFlagged))
        /\ Flagged = {} => (delivered.value = Num(0) /\ batches = <<>>)

-----------------------------------------------------------------------------
(* C11 *)

SomeBatchRejected == \E i \in 1..Len(batches) : batches[i].status = "rejected"

CountLogged(m) == Cardinality({k \in 1..Len(console) : console[k].msg = m})

\* C11: once a submitted batch has been rejected, whatever the order in which
\* the other batches settle, the promise of updateCosts is never resolved with
\* a count: it is still unsettled or it is rejected; once settled it never
\* changes again; the caller never logs an update count, and when the run is
\* over it has logged the error exactly once.
C11_RejectionRejects ==
    /\ [](SomeBatchRejected =>
            /\ delivered.kind \in {"none", "error"}
            /\ ~Logged("Count of vso items updated")
            /\ pc \in {"finally", "done"} => CountLogged("Encountered an error") = 1)
    /\ [][delivered.kind # "none" => delivered' = delivered]_vars

\* the run is over, one batch was accepted before or after another was rejected,
\* and the caller received the rejection
C11_Witness ==
    /\ pc = "done"
    /\ Len(batches) >= 2
    /\ batches[1].status = "resolved"
    /\ batches[2].status = "rejected"
    /\ delivered.kind = "error"
    /\ Logged("Encountered an error")

-----------------------------------------------------------------------------
(* C12 *)

\* C12: on the state a completed roll-up produced, a second call of rollupCosts,
\* or of rollupCostsForItem on an item the roll-up visited, changes nothing:
\* from the call on and while it runs, rollupInfo, isProcessed and
\* isUpdateRequired of every item stay as they were.
C12_SecondCallChangesNothing ==
    [][rollupCalls' >= 2 => workItemsWithFields' = workItemsWithFields]_vars

\* the second call of rollupCosts has gone through every key of a hierarchy with
\* a shared child and costed leaves, and has returned
C12_Witness ==
    /\ rollupCalls = 2
    /\ pc = "print"
    /\ keyIdx > Len(HierarchyKeys)
    /\ Len(HierarchyKeys) >= 2
    /\ \E id \in Parents : RollupOf(id, "RemainingWork") # Num(0)

-----------------------------------------------------------------------------
(* C13 *)

\* the total of field f below item id, computed from the hierarchy index and the
\* stored fields of leaf items only: a leaf's stored value (0 when absent), a
\* parent's children added in order with rounding after each addition
RECURSIVE FromLeaves(_, _)
RECURSIVE FoldFromLeaves(_, _, _)
FromLeaves(id, f) ==
    IF id \notin DOMAIN workItemsHierarchy
    THEN OrZero(StoredOf(id, f))
    ELSE FoldFromLeaves(workItemsHierarchy[id], f, 0)

FoldFromLeaves(children, f, acc) ==
    IF children = <<>> THEN acc
    ELSE FoldFromLeaves(Tail(children), f, Round2(acc + FromLeaves(Head(children), f)))

\* C13: the rollupInfo of every processed item is a function of the hierarchy
\* and of the leaves' stored fields alone; no stored value of a parent item
\* enters it.  Hence two runs over the same hierarchy whose snapshots agree on
\* every leaf produce the same rollupInfo for every processed item, however
\* the parents' stored values differ.
C13_RollupFromLeavesOnly ==
    \A id \in Snapshots :
        workItemsWithFields[id].state.isProcessed =>
            \A f \in FieldNames : RollupOf(id, f) = Num(FromLeaves(id, f))

\* a completed roll-up over a two-level hierarchy in which a parent and its
\* parent both store values that differ from what the leaves add up to
C13_Witness ==
    /\ RollupCompleted
    /\ \E p \in Parents : \E q \in Parents :
          /\ \E k \in 1..Len(workItemsHierarchy[p]) : workItemsHierarchy[p][k] = q
          /\ workItemsWithFields[p].state.isProcessed
          /\ StoredOf(p, "RemainingWork") # Undefined
          /\ StoredOf(q, "RemainingWork") # Undefined
          /\ StoredOf(p, "RemainingWork") # RollupOf(p, "RemainingWork")
          /\ StoredOf(q, "RemainingWork") # RollupOf(q, "RemainingWork")
          /\ RollupOf(p, "RemainingWork") # Num(0)

-----------------------------------------------------------------------------
(* C14 *)

\* the fetch has answered
Fetched == pc \notin {"start", "exit", "query", "fetch"}

\* the hierarchy index lists a child that has no snapshot
MissingChildSnapshot ==
    /\ Fetched
    /\ \E p \in DOMAIN workItemsHierarchy :
          \E k \in 1..Len(workItemsHierarchy[p]) : workItemsHierarchy[p][k] \notin Snapshots

\* C14: when a child id listed in the hierarchy index has no snapshot, the run
\* aborts: rollupCosts never returns normally, the update plan is not printed,
\* updateCosts is not called and no batch is submitted, with or without
\* --apply; the run ends having logged the error and no update count.
C14_MissingSnapshotAborts ==
    MissingChildSnapshot =>
        /\ ~RollupCompleted
        /\ ~Logged("plan")
        /\ ~WriteStarted
        /\ batches = <<>>
        /\ ~Logged("Count of vso items updated")
        /\ pc \in {"rollup", "report", "finally", "done"}
        /\ pc = "report" => delivered.kind = "error"
        /\ pc \in {"finally", "done"} => Logged("Encountered an error")

\* a run with --apply has ended with the error: the last child of the chain has
\* no snapshot, and the parents above it were entered before the error
C14_Witness ==
    /\ MissingChildSnapshot
    /\ cmdline.apply
    /\ pc = "done"
    /\ 4 \notin Snapshots
    /\ \E p \in Parents : RollupOf(p, "RemainingWork") # Undefined
    /\ Logged("Encountered an error")

-----------------------------------------------------------------------------
(* C18 *)

\* the direct children of the items of S
ChildSet(S) ==
    UNION { {workItemsHierarchy[p][k] : k \in 1..Len(workItemsHierarchy[p])} :
              p \in S \cap DOMAIN workItemsHierarchy }

RECURSIVE Below(_)
Below(S) == LET n == S \cup ChildSet(S) IN IF n = S THEN S ELSE Below(n)

\* every item reachable from id through one or more parent -> child entries
Descendants(id) == Below(ChildSet({id}))

OnCycle(id) == id \in Descendants(id)

CyclicHierarchy == Fetched /\ \E id \in DOMAIN workItemsHierarchy : OnCycle(id)

\* C18: when the hierarchy index contains a cycle, rollupCosts never returns
\* normally: no item on a cycle is ever marked processed, the update plan is
\* never printed, updateCosts is never called and no batch is submitted.
C18_CycleNeverCompletes ==
    CyclicHierarchy =>
        /\ ~RollupCompleted
        /\ \A id \in Snapshots : OnCycle(id) => ~workItemsWithFields[id].state.isProcessed
        /\ ~Logged("plan")
        /\ ~WriteStarted
        /\ batches = <<>>

\* every item has a snapshot, an item outside the cycle was processed, the
\* recursion around the cycle has used up the call stack, and the run with
\* --apply has ended
C18_Witness ==
    /\ CyclicHierarchy
    /\ cmdline.apply
    /\ Snapshots = Items
    /\ \E id \in Snapshots : workItemsWithFields[id].state.isProcessed
    /\ \E id \in Snapshots : OnCycle(id) /\ RollupOf(id, "RemainingWork") # Undefined
    /\ pc = "done"

-----------------------------------------------------------------------------
(* C15 *)

LastRun == history[Len(history)]

\* C15: in a run that follows an earlier run over the same external system,
\* once the roll-up has completed the flagged items are exactly the items the
\* earlier run flagged and the external system did not commit: no committed
\* item is flagged again, and no flagged item that was not committed (its
\* batch was rejected, or the cap kept it out of every batch) is missed.
C15_RerunFlagsUncommitted ==
    (history # <<>> /\ RollupCompleted) =>
        Flagged = LastRun.flagged \ LastRun.committed

\* the earlier run committed one batch and not another, and the roll-up of the
\* second run has completed with something left to flag
C15_Witness ==
    /\ history # <<>>
    /\ RollupCompleted
    /\ LastRun.committed # {}
    /\ LastRun.failed # {}
    /\ Flagged = LastRun.failed

-----------------------------------------------------------------------------
(* C16 *)

\* the query has answered and the hierarchy index is built
HierarchyBuilt == pc \notin {"start", "exit", "query"}

\* the positions in the relation list of the parent-child relations of parent p
MatchingRows(p) ==
    {k \in 1..Len(queryResults) :
        queryResults[k].rel = HierarchyForward /\ queryResults[k].source = p}

\* the j-th smallest element of a set of positions
NthRow(rows, j) == CHOOSE k \in rows : Cardinality({i \in rows : i < k}) = j - 1

\* C16: the hierarchy index has a key for exactly the sources of the relations
\* of the Hierarchy-Forward kind; relations of any other kind, the null-source
\* rows of top-level items included, add nothing; the child sequence of a
\* parent holds the targets of its own Hierarchy-Forward relations, in the
\* order of the relation list, one entry per relation.
C16_IndexOfForwardRelations ==
    HierarchyBuilt =>
        /\ DOMAIN workItemsHierarchy =
              {queryResults[k].source :
                  k \in {i \in 1..Len(queryResults) :
                            queryResults[i].rel = HierarchyForward}}
        /\ \A p \in DOMAIN workItemsHierarchy :
              /\ Len(workItemsHierarchy[p]) = Cardinality(MatchingRows(p))
              /\ \A j \in 1..Len(workItemsHierarchy[p]) :
                    workItemsHierarchy[p][j] =
                        queryResults[NthRow(MatchingRows(p), j)].target

\* an index built from a list that holds a null-source row, a relation of
\* another kind, and for one parent a relation listed twice with another
\* parent's relation in between
C16_Witness ==
    /\ HierarchyBuilt
    /\ \E k \in 1..Len(queryResults) : queryResults[k].rel = "null"
    /\ \E k \in 1..Len(queryResults) : queryResults[k].rel = "System.LinkTypes.Related"
    /\ \E p \in DOMAIN workItemsHierarchy :
          /\ Len(workItemsHierarchy[p]) = 3
          /\ workItemsHierarchy[p][1] = workItemsHierarchy[p][3]
          /\ workItemsHierarchy[p][1] # workItemsHierarchy[p][2]

-----------------------------------------------------------------------------
(* C17 *)

\* every id the hierarchy index refers to, as a key or as a child
ReferencedIds == DOMAIN workItemsHierarchy \cup ChildSet(DOMAIN workItemsHierarchy)

\* the fetch has answered, the hierarchy index has no cycle, and every id it
\* refers to has a snapshot
AcyclicWithSnapshots ==
    /\ Fetched
    /\ \A id \in DOMAIN workItemsHierarchy : ~OnCycle(id)
    /\ ReferencedIds \subseteq Snapshots

\* C17: on an acyclic hierarchy, tree or DAG with shared children, in which
\* every referenced id has a snapshot, rollupCosts terminates: the traversal,
\* once started, returns; and when it has returned, every hierarchy key and
\* every descendant of a key is processed and has a number as rollupInfo of
\* every rollup field.
C17_TerminatesAllProcessed ==
    /\ []((AcyclicWithSnapshots /\ RollupCompleted) =>
            \A id \in ReferencedIds :
                /\ workItemsWithFields[id].state.isProcessed
                /\ \A f \in FieldNames : RollupOf(id, f) # Undefined)
    /\ ((AcyclicWithSnapshots /\ pc = "rollup") ~> (pc = "print"))

\* rollupCosts has returned on a DAG in which two parents share a child, every
\* referenced item being processed
C17_Witness ==
    /\ AcyclicWithSnapshots
    /\ pc = "print"
    /\ \E p \in DOMAIN workItemsHierarchy : \E q \in DOMAIN workItemsHierarchy :
          p # q /\ ChildSet({p}) \cap ChildSet({q}) # {}
    /\ \A id \in ReferencedIds : workItemsWithFields[id].state.isProcessed

-----------------------------------------------------------------------------
(* C19 *)

\* C19: updateCosts submits every batch request in the one step in which it
\* submits the first, all of them still pending: no submission waits for the
\* outcome of another batch, so whenever a batch has settled every batch has
\* been submitted.  When all batches succeed, the count delivered is the
\* number of ids submitted, whatever the order in which the responses arrived.
C19_SubmittedTogether ==
    /\ [][(batches = <<>> /\ batches' # <<>>) =>
            /\ Len(batches') = Len(ChunkedIds)
            /\ \A i \in 1..Len(batches') : batches'[i].status = "pending"]_vars
    /\ []((\E i \in 1..Len(batches) : batches[i].status # "pending") =>
            Len(batches) = Len(ChunkedIds))
    /\ []((batches # <<>> /\ delivered.kind = "value") =>
            delivered.value = Num(Len(SubmittedIds(batches))))

\* the response to the second batch has arrived while the first batch is
\* still pending
C19_Witness ==
    /\ Len(batches) >= 2
    /\ batches[1].status = "pending"
    /\ batches[2].status = "resolved"
    /\ pc = "writing"

-----------------------------------------------------------------------------
(* C20 *)

\* the external system stores, for every id of batch b, the values of the patch
Committed(b) ==
    \A k \in 1..Len(b.idsToUpdate) : \A f \in FieldNames :
        vso[b.idsToUpdate[k]][f] = RollupOf(b.idsToUpdate[k], f)

\* C20: nothing is rolled back.  A batch the external system has accepted
\* stays accepted and its values stay stored, whatever happens to the other
\* batches and after updateCosts is rejected; a batch still pending stays
\* acceptable after the rejection is delivered and reported; and what the
\* caller receives is one error that carries nothing about the batches.
C20_NoRollback ==
    /\ [](\A i \in 1..Len(batches) :
            batches[i].status = "resolved" => Committed(batches[i]))
    /\ [][\A i \in 1..Len(batches) :
             batches[i].status = "resolved" =>
                 /\ i \in 1..Len(batches')
                 /\ batches'[i] = batches[i]]_vars
    /\ []((SomeBatchRejected /\ pc \in {"report", "finally", "done"}) =>
            /\ delivered = [kind |-> "error", value |-> Undefined]
            /\ \A i \in 1..Len(batches) :
                  batches[i].status = "pending" => ENABLED BatchResolve(i))
    /\ [](pc = "done" => CountLogged("Encountered an error") <= 1)

\* the caller has reported the error of the first batch and the run is over,
\* while the second batch is still in flight and can be committed
C20_Witness ==
    /\ pc = "done"
    /\ Logged("Encountered an error")
    /\ Len(batches) >= 2
    /\ batches[1].status = "rejected"
    /\ batches[2].status = "pending"
    /\ ENABLED BatchResolve(2)

-----------------------------------------------------------------------------
(* C21 *)

IsProcessed(id) == id \in Snapshots /\ workItemsWithFields[id].state.isProcessed

\* C21: in every state of the run, an item that is marked processed has every
\* direct child, and every descendant, processed as well, and its rollupInfo
\* holds its final value: the total computed from its leaves, which no later
\* step changes; a processed item also stays processed.
C21_ProcessedSubtreeDone ==
    /\ [](\A id \in Snapshots :
            IsProcessed(id) =>
                /\ \A c \in ChildSet({id}) : IsProcessed(c)
                /\ \A d \in Descendants(id) : IsProcessed(d)
                /\ \A f \in FieldNames : RollupOf(id, f) = Num(FromLeaves(id, f)))
    /\ [][\A id \in Snapshots :
             IsProcessed(id) =>
                 /\ id \in DOMAIN workItemsWithFields'
                 /\ workItemsWithFields'[id].state.isProcessed
                 /\ workItemsWithFields'[id].state.rollupInfo =
                        workItemsWithFields[id].state.rollupInfo]_vars

\* in the middle of the traversal: a parent below the top-level item is
\* processed with all its children, while the item above it is still being
\* aggregated
C21_Witness ==
    /\ pc = "rollup"
    /\ stack # <<>>
    /\ \E p \in Parents : \E q \in Parents :
          /\ q \in ChildSet({p})
          /\ IsProcessed(q)
          /\ ~IsProcessed(p)
          /\ RollupOf(p, "RemainingWork") # Undefined
          /\ RollupOf(q, "RemainingWork") # Num(0)

-----------------------------------------------------------------------------
(* C22 *)

\* the computation state of id is as getWorkItemFields created it
Untouched(id) == workItemsWithFields[id].state = NewEntry(<<>>).state

\* a call of rollupCostsForItem for id is active
OnStack(id) == \E k \in 1..Len(stack) : stack[k].itemId = id

Acyclic == \A id \in DOMAIN workItemsHierarchy : ~OnCycle(id)

-----------------------------------------------------------------------------
(* C23 *)

\* v rounded to whole cents, a tie going to the cent of larger magnitude
RoundHalfAwayFromZero(v) ==
    IF v >= 0 THEN ((v + 5) \div 10) * 10 ELSE -(((-v + 5) \div 10) * 10)

\* the children's computed values of field f added in order to acc, the sum
\* rounded half away from zero after each addition
RECURSIVE SumRoundingAway(_, _, _)
SumRoundingAway(children, f, acc) ==
    IF children = <<>> THEN acc
    ELSE SumRoundingAway(Tail(children), f,
            RoundHalfAwayFromZero(acc + RollupOf(Head(children), f)[1]))

\* C23: after each addition of a child's value the parent's accumulator is
\* rounded to 2 decimal places with ties away from zero, for positive and
\* negative values alike, so a completed roll-up leaves in every parent the
\* result of adding its children in order with that rounding.
C23_TiesAwayFromZero ==
    RollupCompleted =>
        \A id \in Parents : \A f \in FieldNames :
            RollupOf(id, f) = Num(SumRoundingAway(workItemsHierarchy[id], f, 0))

-----------------------------------------------------------------------------
(* C24 *)

\* C24: the write phase only reads.  From the step in which updateCosts is
\* called on, through every batch outcome and the settling of its promise,
\* no item's rollupInfo, isProcessed, isUpdateRequired or fields change; and
\* at every point of the run, traversal included, the fields of a fetched
\* snapshot stay as they were fetched.
C24_WritePhaseOnlyReads ==
    /\ [][WriteStarted' => workItemsWithFields' = workItemsWithFields]_vars
    /\ [][\A id \in Snapshots :
             /\ id \in DOMAIN workItemsWithFields'
             /\ workItemsWithFields'[id].fields = workItemsWithFields[id].fields]_vars

\* the run is over, a batch was committed, and the snapshot of a committed item
\* still holds the fields that were fetched, not the values now stored
C24_Witness ==
    /\ pc = "done"
    /\ WriteStarted
    /\ \E i \in 1..Len(batches) :
          /\ batches[i].status = "resolved"
          /\ \E k \in 1..Len(batches[i].idsToUpdate) :
                vso[batches[i].idsToUpdate[k]] #
                    workItemsWithFields[batches[i].idsToUpdate[k]].fields

-----------------------------------------------------------------------------
(* C25 *)

SomePageRejected == \E i \in 1..Len(fetch.pages) : fetch.pages[i].status = "rejected"

\* the run has logged one outcome, an update count or an error, and after it
\* Done, once
ReportedThenDone ==
    /\ CountLogged("Count of vso items updated") + CountLogged("Encountered an error") = 1
    /\ CountLogged("Done") = 1
    /\ \E i \in 1..Len(console) : \E j \in 1..Len(console) :
          /\ i < j
          /\ console[i].msg \in {"Count of vso items updated", "Encountered an error"}
          /\ console[j].msg = "Done"

\* C25: when the hierarchy query fails, or one page of the field fetch fails,
\* rollupCosts is never called, there are no snapshots, no plan is printed and
\* no batch is submitted.  When rollupCosts has been called, the query and
\* every page have succeeded and the snapshot table holds every requested item
\* of the external system.  A run that is over has logged an update count or
\* an error, and then Done; and every run that sends the query is over after
\* a while.
C25_ReadFailureAborts ==
    /\ []((fetch.query = "rejected" \/ SomePageRejected) =>
            /\ rollupCalls = 0
            /\ workItemsWithFields = <<>>
            /\ ~Logged("plan")
            /\ ~WriteStarted
            /\ batches = <<>>
            /\ ~Logged("Count of vso items updated")
            /\ pc \in {"finally", "done"} => Logged("Encountered an error"))
    /\ [](rollupCalls >= 1 =>
            /\ fetch.query = "resolved"
            /\ \A i \in 1..Len(fetch.pages) : fetch.pages[i].status = "resolved"
            /\ Snapshots = TargetIds(queryResults) \cap DOMAIN vso)
    /\ [](pc = "done" => ReportedThenDone)
    /\ (pc = "query" ~> pc = "done")

\* a run with --apply is over: the first page of the fetch had answered, the
\* second failed, and the error was reported
C25_Witness ==
    /\ pc = "done"
    /\ cmdline.apply
    /\ Len(fetch.pages) >= 2
    /\ fetch.pages[1].status = "resolved"
    /\ fetch.pages[2].status = "rejected"
    /\ fetch.results # <<>>
    /\ Logged("Error from getWorkItemFields()")
    /\ ReportedThenDone

-----------------------------------------------------------------------------
(* C26 *)

\* C26: in every state of the run, an item that is not a parent key of the
\* hierarchy index is not flagged for update, whatever its stored values:
\* only items with children are ever flagged, and only such items are in a
\* batch.
C26_LeafNeverFlagged ==
    /\ \A id \in Leaves : ~workItemsWithFields[id].state.isUpdateRequired
    /\ \A k \in 1..Len(SubmittedIds(batches)) :
          SubmittedIds(batches)[k] \in DOMAIN workItemsHierarchy

\* a completed roll-up in which a processed leaf stores a negative value and a
\* value with a fraction of a cent, its parent is flagged, and the leaf is not
C26_Witness ==
    /\ RollupCompleted
    /\ \E id \in Leaves : \E p \in Parents :
          /\ id \in ChildSet({p})
          /\ IsProcessed(id)
          /\ StoredOf(id, "RemainingWork") = Num(5)
          /\ StoredOf(id, "OriginalEstimate") = Num(-5)
          /\ workItemsWithFields[p].state.isUpdateRequired
          /\ ~workItemsWithFields[id].state.isUpdateRequired

-----------------------------------------------------------------------------
(* C27 *)

Max(a, b) == IF a >= b THEN a ELSE b

\* the least n with n * k >= a
CeilDiv(a, k) == (a + k - 1) \div k

\* every batch of every earlier run was accepted
AllRunsSucceeded == \A r \in 1..Len(history) : history[r].failed = {}

\* the number of items the first run flagged
FirstRunFlagged ==
    IF history = <<>> THEN Cardinality(Flagged) ELSE Cardinality(history[1].flagged)

\* C27: repeated writing runs under the cap K converge.  After a run that
\* flagged N items and had every batch accepted, the next run flags exactly
\* max(N - K, 0) items, all of them flagged before; and once ceil(N / K) runs
\* have had every batch accepted, the run that follows flags no item and
\* submits no batch, from the end of its roll-up to its end.
C27_CappedRunsConverge ==
    RollupCompleted =>
        /\ (history # <<>> /\ LastRun.failed = {}) =>
              /\ Flagged \subseteq LastRun.flagged
              /\ Cardinality(Flagged) =
                    Max(Cardinality(LastRun.flagged) - EffectiveCap, 0)
        /\ (AllRunsSucceeded /\ Len(history) >= CeilDiv(FirstRunFlagged, EffectiveCap)) =>
              /\ Flagged = {}
              /\ batches = <<>>

\* with --forcecap 1, three runs have each written one of the three items the
\* first run flagged, and the fourth run has ended without a batch
C27_Witness ==
    /\ Len(history) = 3
    /\ AllRunsSucceeded
    /\ EffectiveCap = 1
    /\ Cardinality(history[1].flagged) = 3
    /\ Cardinality(history[2].flagged) = 2
    /\ Cardinality(history[3].flagged) = 1
    /\ pc = "done"
    /\ Flagged = {}
    /\ batches = <<>>

=============================================================================
